---- MODULE Spec2Model ----
(***************************************************************************)
(* A model of uhyve's hypercall subsystem: the guest -> host path map      *)
(* (src/src/isolation.rs) and the hypercall dispatch and handlers          *)
(* (src/src/hypercall.rs).  Paths and strings are sequences of one-        *)
(* character strings, so that the path algebra of std::path (components,   *)
(* parent, ancestors, strip_prefix, push) is computed, not assumed.        *)
(***************************************************************************)
EXTENDS Integers, Sequences, FiniteSets, TLC

(***************************************************************************)
(* Bounds of the model (not program constants).                            *)
(***************************************************************************)
\* Highest host file descriptor number the host process can hold.
MaxFd == 3
\* Guest memory is the address range MemBase .. MemBase + MemSize - 1.
MemBase == 2
MemSize == 4
\* Guest-virtual addresses below MappedEnd are identity mapped by the boot
\* page tables; MappedEnd lies beyond the end of guest memory.
MappedEnd == 7
\* Addresses and lengths the guest can place in a parameter record.
MaxAddr == 7
MaxLen == 2
\* Size of a hypercall parameter record, in address units.
RecLen == 2

(***************************************************************************)
(* Strings.                                                                *)
(***************************************************************************)
Sep == "/"
Dot == "."
Colon == ":"
\* A byte that is not valid UTF-8 (0xFF).
BadByte == "#"

None == <<>>
Some(x) == <<x>>
IsSome(o) == o # <<>>
Unwrap(o) == o[1]

RECURSIVE SplitAt(_, _)
\* str::split(c): the pieces of s between occurrences of c.
SplitAt(s, c) ==
  IF \A i \in 1..Len(s) : s[i] # c THEN <<s>>
  ELSE LET i == CHOOSE k \in 1..Len(s) :
                  s[k] = c /\ \A j \in 1..(k - 1) : s[j] # c
       IN  <<SubSeq(s, 1, i - 1)>> \o SplitAt(SubSeq(s, i + 1, Len(s)), c)

RECURSIVE DropEmptyAndDot(_)
DropEmptyAndDot(segs) ==
  IF segs = <<>> THEN <<>>
  ELSE IF Head(segs) = <<>> \/ Head(segs) = <<Dot>>
       THEN DropEmptyAndDot(Tail(segs))
       ELSE <<Head(segs)>> \o DropEmptyAndDot(Tail(segs))

HasRoot(s) == Len(s) > 0 /\ s[1] = Sep

\* Components::include_cur_dir: a leading "." component is kept.
IncludeCurDir(s) ==
  /\ ~HasRoot(s)
  /\ Len(s) > 0
  /\ s[1] = Dot
  /\ (Len(s) = 1 \/ s[2] = Sep)

\* Path::components: RootDir is <<"/">>, CurDir <<".">>, ParentDir
\* <<".", ".">>, a normal component its characters.
Components(s) ==
  IF s = <<>> THEN <<>>
  ELSE LET segs == SplitAt(s, Sep)
       IN  IF HasRoot(s) THEN <<(<<Sep>>)>> \o DropEmptyAndDot(Tail(segs))
           ELSE IF IncludeCurDir(s)
                THEN <<(<<Dot>>)>> \o DropEmptyAndDot(Tail(segs))
                ELSE DropEmptyAndDot(segs)

\* Components::len_before_body.
LenBeforeBody(s) == IF HasRoot(s) \/ IncludeCurDir(s) THEN 1 ELSE 0

\* Start of the last component of the body of u (after the last separator
\* at or after lbb + 1), together with the size parse_next_component_back
\* reports for it.
LastSepPos(u, lbb) ==
  IF \E k \in (lbb + 1)..Len(u) : u[k] = Sep
  THEN CHOOSE k \in (lbb + 1)..Len(u) :
         u[k] = Sep /\ \A j \in (k + 1)..Len(u) : u[j] # Sep
  ELSE 0

LastComp(u, lbb) ==
  LET k == LastSepPos(u, lbb)
  IN  IF k = 0 THEN SubSeq(u, lbb + 1, Len(u)) ELSE SubSeq(u, k + 1, Len(u))

LastSize(u, lbb) ==
  LET k == LastSepPos(u, lbb)
  IN  IF k = 0 THEN Len(u) - lbb ELSE Len(u) - k + 1

RECURSIVE TrimRight(_, _)
\* Components::trim_right: drop trailing separators and "." components.
TrimRight(u, lbb) ==
  IF Len(u) <= lbb THEN u
  ELSE IF LastComp(u, lbb) = <<>> \/ LastComp(u, lbb) = <<Dot>>
       THEN TrimRight(SubSeq(u, 1, Len(u) - LastSize(u, lbb)), lbb)
       ELSE u

\* Path::parent, as an option of the raw string that remains.
Parent(s) ==
  LET lbb == LenBeforeBody(s)
      t   == TrimRight(s, lbb)
  IN  IF Len(t) > lbb
      THEN Some(TrimRight(SubSeq(t, 1, Len(t) - LastSize(t, lbb)), lbb))
      ELSE IF IncludeCurDir(s) THEN Some(<<>>)
      ELSE None

RECURSIVE Ancestors(_)
\* Path::ancestors: s, its parent, the parent's parent, ...
Ancestors(s) ==
  IF IsSome(Parent(s)) THEN <<s>> \o Ancestors(Unwrap(Parent(s))) ELSE <<s>>

\* PathBuf::push of one component.
Push(buf, c) ==
  IF HasRoot(c) THEN c
  ELSE IF buf = <<>> \/ buf[Len(buf)] = Sep THEN buf \o c
  ELSE buf \o <<Sep>> \o c

(***************************************************************************)
(* The host file system at VM construction, as far as canonicalization     *)
(* sees it: /h is a directory, /l a symlink to /h, /x a dangling symlink,  *)
(* and nothing else exists.                                                *)
(***************************************************************************)
H_h == <<"/", "h">>
H_l == <<"/", "l">>
H_x == <<"/", "x">>
H_n == <<"/", "n">>
HostExisting == {H_h}
HostLinks == {<<H_l, H_h>>, <<H_x, H_n>>}

\* fs::canonicalize(host_path), as an option.
Canonicalize(h) ==
  IF \E l \in HostLinks : l[1] = h
  THEN LET l == CHOOSE l \in HostLinks : l[1] = h
       IN  IF l[2] \in HostExisting THEN Some(l[2]) ELSE None
  ELSE IF h \in HostExisting THEN Some(h) ELSE None

(***************************************************************************)
(* UhyveFileMap (src/src/isolation.rs).  The map `files` is a function     *)
(* from guest path strings to host path strings.                           *)
(***************************************************************************)
EmptyMap == [k \in {} |-> <<>>]

\* HashMap::insert: last write wins.
Insert(m, k, v) == [x \in (DOMAIN m) \cup {k} |-> IF x = k THEN v ELSE m[x]]

\* split_guest_and_host_path: <<guest_path, host_path>> of "host:guest".
split_guest_and_host_path(parameter) ==
  LET parts == SplitAt(parameter, Colon)
  IN  <<parts[2], parts[1]>>

RECURSIVE CollectParams(_, _)
CollectParams(m, parameters) ==
  IF parameters = <<>> THEN m
  ELSE LET gh    == split_guest_and_host_path(Head(parameters))
           canon == Canonicalize(gh[2])
           host  == IF IsSome(canon) THEN Unwrap(canon) ELSE gh[2]
       IN  CollectParams(Insert(m, gh[1], host), Tail(parameters))

\* UhyveFileMap::new; `parameters` is an option of a list of parameters.
UhyveFileMapNew(parameters) ==
  IF IsSome(parameters) THEN CollectParams(EmptyMap, Unwrap(parameters))
  ELSE EmptyMap

RECURSIVE DropN(_, _)
DropN(s, n) == IF n = 0 \/ s = <<>> THEN s ELSE DropN(Tail(s), n - 1)

\* The guest key under which get_host_path caches the first component of
\* the suffix: new_guest_path starts out as PathBuf::new().
NewGuestPathStart(searched_parent_guest) == <<>>

\* A traversal that caches the components but returns the mapped parent's
\* host path without extending it.
CacheSuffixParentOnly(m, host_path, new_guest_path, comps) ==
  <<m, host_path>>

RECURSIVE CacheSuffix(_, _, _, _)
\* The for_each over the suffix components: push onto both paths, insert.
\* Yields <<files, host_path>>.
CacheSuffix(m, host_path, new_guest_path, comps) ==
  IF comps = <<>> THEN <<m, host_path>>
  ELSE LET h == Push(host_path, Head(comps))
           g == Push(new_guest_path, Head(comps))
       IN  CacheSuffix(Insert(m, g, h), h, g, Tail(comps))

RECURSIVE SearchAncestors(_, _, _)
\* The loop over the ancestors of the parent of guest_path.
\* Yields <<result option, files>>.
SearchAncestors(m, guest_path, ancestors) ==
  IF ancestors = <<>> THEN <<None, m>>
  ELSE LET searched_parent_guest == Head(ancestors)
       IN  IF searched_parent_guest \in DOMAIN m
           THEN LET suffix == DropN(Components(guest_path),
                                     Len(Components(searched_parent_guest)))
                    r == CacheSuffix(m, m[searched_parent_guest],
                                     NewGuestPathStart(searched_parent_guest),
                                     suffix)
                IN  <<Some(r[2]), r[1]>>
           ELSE SearchAncestors(m, guest_path, Tail(ancestors))

\* UhyveFileMap::get_host_path: <<result option, files afterwards>>.
get_host_path(m, guest_path) ==
  IF guest_path \in DOMAIN m THEN <<Some(m[guest_path]), m>>
  ELSE IF DOMAIN m = {} THEN <<None, m>>
  ELSE IF IsSome(Parent(guest_path))
       THEN SearchAncestors(m, guest_path, Ancestors(Unwrap(Parent(guest_path))))
       ELSE <<None, m>>

\* UhyveFileMap::append_file_and_return_cstring: <<c string, files>>.
append_file_and_return_cstring(m, guest_path, host_path) ==
  <<host_path, Insert(m, guest_path, host_path)>>

(***************************************************************************)
(* State.                                                                  *)
(***************************************************************************)
VARIABLES
  files,       \* UhyveFileMap.files: guest path -> host path
  hasMap,      \* whether the handlers are handed Some(file_map)
  configured,  \* guest paths given at construction or appended since
  hostFiles,   \* host paths that exist
  hostFds,     \* descriptors open in the host process
  guestFds,    \* descriptors handed to the guest by open, not closed since
  pc,          \* "run", "write" (inside the write loop) or "aborted"
  wr,          \* the write handler's parameters and bytes_written
  last,        \* the operation handled last, its inputs and its result
  host,        \* the host call issued by the step taken last
  params,      \* Params.file_mapping: the parameter list the VM was given
  fdTab,       \* host descriptor -> the object it is open on and its offset
  content,     \* host object (file or standard stream) -> bytes written
  output,      \* UhyveVm.output: the serial sink and what it has collected
  guest,       \* the guest program: its position and what it has sent
  inp,         \* input of a function applied on its own
  out          \* its result

vars == <<files, hasMap, configured, hostFiles, hostFds, guestFds, pc, wr,
          last, host, params, fdTab, content, output, guest, inp, out>>

\* What no hypercall handler touches.
idle == <<params, guest, inp, out>>

\* The host's descriptor table and file contents.
store == <<fdTab, content>>

NoHost == [call |-> "none", path |-> <<>>, flags |-> 0, fd |-> -1,
           ptr |-> -1, len |-> 0, ret |-> 0, data |-> <<>>]
NoLast == [op |-> "none", name |-> <<>>, flags |-> 0, fd |-> -1, ret |-> 0,
           res |-> None, changed |-> FALSE]
NoWr == [fd |-> -1, buf |-> 0, len |-> 0, bytes_written |-> 0]

\* The standard streams of the hypervisor process.
Stdin  == <<"stdin">>
Stdout == <<"stdout">>
Stderr == <<"stderr">>

NoGuest == [step |-> "free", name |-> <<>>, fd |-> -1, bytes |-> <<>>]
NoOutput == [kind |-> "StdIo", buf |-> <<>>]

\* The host process when the VM is constructed.
HostInit ==
  /\ hostFiles = HostExisting \cup {H_l}
  /\ hostFds = {0, 1, 2}
  /\ fdTab = (0 :> [path |-> Stdin, off |-> 0])
              @@ (1 :> [path |-> Stdout, off |-> 0])
              @@ (2 :> [path |-> Stderr, off |-> 0])
  /\ content = EmptyMap

\* An arbitrary guest, the default sink, no function under test.
Quiet ==
  /\ output = NoOutput
  /\ guest = NoGuest
  /\ inp = None
  /\ out = None

(***************************************************************************)
(* The path map on its own: construction from a parameter list, then any   *)
(* sequence of get_host_path and append_file_and_return_cstring calls.     *)
(***************************************************************************)
G_g   == <<"g">>
G_gs  == <<"g", "/", "s">>
G_gsf == <<"g", "/", "s", "/", "f">>
G_s   == <<"s">>
G_sf  == <<"s", "/", "f">>
G_u   == <<"u">>
G_us  == <<"u", "/", "s">>
G_gds == <<"g", "/", "/", "s">>
G_d   == <<"d">>

Param(h, g) == h \o <<Colon>> \o g

\* The parameter lists a path map is built from.
ParamLists ==
  { None,
    Some(<<>>),
    Some(<<Param(H_h, G_g)>>),
    Some(<<Param(H_l, G_g), Param(H_x, G_d)>>),
    Some(<<Param(H_h, G_g), Param(H_n, G_s)>>) }

\* The guest paths looked up.
LookupPaths == {G_g, G_gs, G_gsf, G_s, G_sf, G_u, G_us, G_gds, G_d, <<>>}

\* The per-VM temporary directory of create_temp_dir.
TmpDir == <<"/", "t">>

InitMap ==
  /\ \E parameters \in ParamLists :
       /\ files = UhyveFileMapNew(parameters)
       /\ params = parameters
       /\ hasMap = TRUE
  /\ HostInit
  /\ Quiet
  /\ configured = DOMAIN files
  /\ guestFds = {}
  /\ pc = "run"
  /\ wr = NoWr
  /\ last = NoLast
  /\ host = NoHost

MapGetHostPath ==
  \E guest_path \in LookupPaths :
    LET r == get_host_path(files, guest_path)
    IN  /\ files' = r[2]
        /\ last' = [NoLast EXCEPT !.op = "get_host_path",
                                  !.name = guest_path,
                                  !.res = r[1],
                                  !.changed = (r[2] # files)]
        /\ UNCHANGED <<hasMap, configured, hostFiles, hostFds, guestFds, pc,
                       wr, host, output>>
        /\ UNCHANGED <<idle, store>>

MapAppendFile ==
  \E guest_path \in {G_u, G_us} :
    LET r == append_file_and_return_cstring(files, guest_path,
                                            Push(TmpDir, guest_path))
    IN  /\ files' = r[2]
        /\ configured' = configured \cup {guest_path}
        /\ last' = [NoLast EXCEPT !.op = "append_file",
                                  !.name = guest_path,
                                  !.res = Some(r[1]),
                                  !.changed = (r[2] # files)]
        /\ UNCHANGED <<hasMap, hostFiles, hostFds, guestFds, pc, wr, host, output>>
        /\ UNCHANGED <<idle, store>>

NextMap == MapGetHostPath \/ MapAppendFile

SpecMap == InitMap /\ [][NextMap]_vars

(***************************************************************************)
(* Open flags (src/src/consts.rs) and bit operations on them.              *)
(***************************************************************************)
O_RDONLY == 0
O_WRONLY == 1
O_RDWR == 2
O_CREAT == 64
O_EXCL == 128
O_TRUNC == 512
O_APPEND == 1024
O_DIRECT == 16384
O_DIRECTORY == 65536
\* A flag bit outside the allowed set (O_NOCTTY of the host's libc).
O_NOCTTY == 256

RECURSIVE BitAnd(_, _)
BitAnd(a, b) ==
  IF a = 0 \/ b = 0 THEN 0
  ELSE (a % 2) * (b % 2) + 2 * BitAnd(a \div 2, b \div 2)

RECURSIVE BitOr(_, _)
BitOr(a, b) ==
  IF a = 0 THEN b
  ELSE IF b = 0 THEN a
  ELSE (IF a % 2 = 1 \/ b % 2 = 1 THEN 1 ELSE 0)
         + 2 * BitOr(a \div 2, b \div 2)

ALLOWED_OPEN_FLAGS ==
  BitOr(O_RDONLY, BitOr(O_WRONLY, BitOr(O_RDWR, BitOr(O_CREAT,
    BitOr(O_EXCL, BitOr(O_TRUNC, BitOr(O_APPEND,
      BitOr(O_DIRECT, O_DIRECTORY))))))))

HasFlag(flags, bit) == BitAnd(flags, bit) = bit

\* POSIX error numbers of the host.
ENOENT == 2
EBADF == 9
EFAULT == 14
EINVAL == 22

(***************************************************************************)
(* The guest memory region and address translation.                        *)
(***************************************************************************)
Addrs == 0..MaxAddr
Lens == 0..MaxLen
\* The descriptors the guest passes to close: stdin, the first descriptor
\* an open can return, and one the host never hands out.
CloseFds == {0, 3, MaxFd + 1}
\* The descriptors the guest passes to read, write and lseek.
IoFds == {1, 3, MaxFd + 1}
\* The buffer addresses the guest passes: the last one inside the region,
\* the first past it (still mapped), and an unmapped one.
BufAddrs == {MemBase + MemSize - 1, MemBase + MemSize, MappedEnd}

\* MmapMemory::host_address: the host pointer of gpa (written as the gpa
\* itself), or none when gpa is outside the region.
host_address(gpa) ==
  IF MemBase <= gpa /\ gpa < MemBase + MemSize THEN Some(gpa) ELSE None

\* The two errors a memory access can report.
MemoryErrors == {"BoundsViolation", "WrongMemoryError"}

\* MmapMemory::get_ref_mut::<T>: whether a record of RecLen units at gpa
\* lies in the region.
get_ref_mut(gpa) == MemBase <= gpa /\ gpa + RecLen <= MemBase + MemSize

\* virt_to_phys under the boot page tables: the identity below MappedEnd.
virt_to_phys(gva) == IF gva < MappedEnd THEN Some(gva) ELSE None

(***************************************************************************)
(* Hypercall dispatch (address_to_hypercall).                              *)
(***************************************************************************)
\* The ports HypercallAddress::try_from accepts.
ReservedPorts == {"Uart", "SerialBufferWrite", "FileOpen", "FileClose",
                  "FileRead", "FileWrite", "FileLseek", "FileUnlink",
                  "Cmdsize", "Cmdval", "Exit"}

\* The ports whose data is the address of a parameter record.
RecordPorts == {"FileClose", "FileLseek", "FileOpen", "FileRead",
                "FileWrite", "FileUnlink", "Exit", "Cmdsize", "Cmdval",
                "SerialBufferWrite"}

NoHypercall == [tag |-> "None", variant |-> "", payload |-> 0,
                borrow |-> None]

\* A dispatch that borrows the record at data without looking at the port
\* (no special case for the serial byte port).
address_to_hypercall_borrow_always(port, data) ==
  IF port \notin ReservedPorts THEN NoHypercall
  ELSE IF get_ref_mut(data)
       THEN [tag |-> "Some", variant |-> port, payload |-> data,
             borrow |-> Some(data)]
       ELSE [NoHypercall EXCEPT !.tag = "panic", !.borrow = Some(data)]

\* address_to_hypercall: tag "None" for a port outside the reserved set,
\* "panic" where an unwrap of get_ref_mut fails or the arm is
\* unimplemented!(), "Some" with the variant otherwise.  `payload` is what
\* the variant carries (the record's address, or the byte), `borrow` the
\* guest address get_ref_mut was asked for, if any.
address_to_hypercall(port, data) ==
  IF port \notin ReservedPorts THEN NoHypercall
  ELSE IF port = "Uart"
       THEN [tag |-> "Some", variant |-> "SerialWriteByte",
             payload |-> data % 256, borrow |-> None]
  ELSE IF port \in RecordPorts
       THEN IF get_ref_mut(data)
            THEN [tag |-> "Some",
                  variant |-> IF port = "SerialBufferWrite"
                              THEN "SerialWriteBuffer" ELSE port,
                  payload |-> data, borrow |-> Some(data)]
            ELSE [NoHypercall EXCEPT !.tag = "panic", !.borrow = Some(data)]
  ELSE [NoHypercall EXCEPT !.tag = "panic"]

(***************************************************************************)
(* The host's system calls.                                                *)
(***************************************************************************)
FreeFds == {n \in 0..MaxFd : n \notin hostFds}
LowestFree == CHOOSE n \in FreeFds : \A k \in FreeFds : n <= k

\* Whether the directory a host path lies in exists (the root and the
\* working directory always do).
ParentExists(path) ==
  \/ ~IsSome(Parent(path))
  \/ Unwrap(Parent(path)) \in {<<>>, <<Sep>>} \cup hostFiles

\* libc::open(path, flags, mode): whether it fails.
HostOpenFails(path, flags) ==
  \/ path = <<>>
  \/ ~ParentExists(path)
  \/ path \in hostFiles /\ HasFlag(flags, O_CREAT) /\ HasFlag(flags, O_EXCL)
  \/ path \notin hostFiles /\ ~HasFlag(flags, O_CREAT)
  \/ FreeFds = {}

HostOpenRet(path, flags) ==
  IF HostOpenFails(path, flags) THEN -1 ELSE LowestFree

\* The host call and its effect on the host's files and descriptors.
HostOpen(path, flags) ==
  /\ host' = [NoHost EXCEPT !.call = "open", !.path = path, !.flags = flags,
                !.ret = HostOpenRet(path, flags)]
  /\ IF HostOpenFails(path, flags)
     THEN UNCHANGED <<hostFiles, hostFds>>
     ELSE /\ hostFiles' = hostFiles \cup {path}
          /\ hostFds' = hostFds \cup {LowestFree}

(***************************************************************************)
(* The VM: construction, then hypercalls of one vCPU, each handled while   *)
(* the vCPU is halted.                                                     *)
(***************************************************************************)
\* The mapping parameters a VM is started with.
VmParamLists ==
  { None,
    Some(<<>>),
    Some(<<Param(H_h, G_g), Param(H_n, G_d)>>) }

\* The NUL-terminated strings the guest places at a name address.
GuestNames == {G_g, G_gs, G_d, G_u, <<BadByte>>}

\* The addresses the guest passes as a name: the first and the last inside
\* the region, and the first one on either side of it.
NameAddrs == {MemBase - 1, MemBase, MemBase + MemSize - 1, MemBase + MemSize}

\* The flags values the guest passes to open.
FlagBits == {O_CREAT, O_DIRECTORY, O_NOCTTY}
RECURSIVE SumOf(_)
SumOf(S) == IF S = {} THEN 0
            ELSE LET x == CHOOSE x \in S : TRUE IN x + SumOf(S \ {x})
GuestFlags ==
  {SumOf(S) : S \in SUBSET FlagBits} \cup {O_WRONLY + O_CREAT + O_EXCL}

\* CStr::to_str: whether the bytes are valid UTF-8.
IsUtf8(name) == \A i \in 1..Len(name) : name[i] # BadByte

Init ==
  /\ \E parameters \in VmParamLists :
       /\ files = UhyveFileMapNew(parameters)
       /\ params = parameters
       /\ hasMap = IsSome(parameters)
  /\ HostInit
  /\ Quiet
  /\ configured = DOMAIN files
  /\ guestFds = {}
  /\ pc = "run"
  /\ wr = NoWr
  /\ last = NoLast
  /\ host = NoHost

\* A panic of the hypervisor process (a failed unwrap, unreachable!).
Panic(op) ==
  /\ pc' = "aborted"
  /\ last' = [NoLast EXCEPT !.op = op, !.res = Some(<<"p", "a", "n", "i", "c">>)]
  /\ host' = NoHost
  /\ UNCHANGED <<files, hasMap, configured, hostFiles, hostFds, guestFds, wr, output>>

\* hypercall::open, after dispatch and after the unwrap of
\* host_address(sysopen.name); `name` is the string found there.
open(name, flags) ==
    /\ pc' = "run"
    /\ UNCHANGED <<files, hasMap, configured, wr, output>>
    /\ IF hasMap
       THEN IF IsUtf8(name) /\ name \in DOMAIN files
            THEN /\ HostOpen(files[name], flags)
                 /\ last' = [NoLast EXCEPT !.op = "open", !.name = name,
                               !.flags = flags,
                               !.ret = HostOpenRet(files[name], flags)]
            ELSE /\ last' = [NoLast EXCEPT !.op = "open", !.name = name,
                               !.flags = flags, !.ret = -1]
                 /\ host' = NoHost
                 /\ UNCHANGED <<hostFiles, hostFds>>
       ELSE /\ HostOpen(name, flags)
            /\ last' = [NoLast EXCEPT !.op = "open", !.name = name,
                          !.flags = flags, !.ret = HostOpenRet(name, flags)]
    /\ guestFds' = IF last'.ret >= 0 THEN guestFds \cup {last'.ret}
                   ELSE guestFds

HcOpen ==
  /\ pc = "run"
  /\ UNCHANGED <<idle, store>>
  /\ \/ /\ {data \in Addrs : address_to_hypercall("FileOpen", data).tag = "panic"} # {}
        /\ Panic("open")
     \/ /\ {data \in Addrs : address_to_hypercall("FileOpen", data).tag = "Some"} # {}
        /\ \/ /\ {a \in NameAddrs : ~IsSome(host_address(a))} # {}
              /\ Panic("open")
           \/ /\ {a \in NameAddrs : IsSome(host_address(a))} # {}
              /\ \E name \in GuestNames, flags \in GuestFlags :
                   open(name, flags)

\* hypercall::close, after dispatch.
close(fd) ==
  /\ pc' = "run"
  /\ host' = [NoHost EXCEPT !.call = "close", !.fd = fd,
                !.ret = IF fd \in hostFds THEN 0 ELSE -1]
  /\ hostFds' = hostFds \ {fd}
  /\ last' = [NoLast EXCEPT !.op = "close", !.fd = fd,
                !.ret = IF fd \in hostFds THEN 0 ELSE -1]
  /\ guestFds' = IF fd \in hostFds THEN guestFds \ {fd} ELSE guestFds
  /\ UNCHANGED <<files, hasMap, configured, hostFiles, wr, output>>

HcClose ==
  /\ pc = "run"
  /\ UNCHANGED <<idle, store>>
  /\ \/ /\ {data \in Addrs : address_to_hypercall("FileClose", data).tag = "panic"} # {}
        /\ Panic("close")
     \/ /\ {data \in Addrs : address_to_hypercall("FileClose", data).tag = "Some"} # {}
        /\ \E fd \in CloseFds : close(fd)

\* hypercall::read, after dispatch.
read(fd, buf, len) ==
  IF ~IsSome(virt_to_phys(buf)) THEN Panic("read")
  ELSE IF ~IsSome(host_address(Unwrap(virt_to_phys(buf)))) THEN Panic("read")
  ELSE
    /\ pc' = "run"
    /\ \E bytes_read \in (-1)..len :
         /\ (fd \notin hostFds) => bytes_read = -1
         /\ host' = [NoHost EXCEPT !.call = "read", !.fd = fd,
                       !.ptr = Unwrap(host_address(Unwrap(virt_to_phys(buf)))),
                       !.len = len, !.ret = bytes_read]
         /\ last' = [NoLast EXCEPT !.op = "read", !.fd = fd,
                       !.ret = IF bytes_read >= 0 THEN bytes_read ELSE -1]
    /\ UNCHANGED <<files, hasMap, configured, hostFiles, hostFds, guestFds,
                   wr, output>>

HcRead ==
  /\ pc = "run"
  /\ UNCHANGED <<idle, store>>
  /\ \/ /\ {data \in Addrs : address_to_hypercall("FileRead", data).tag = "panic"} # {}
        /\ Panic("read")
     \/ /\ {data \in Addrs : address_to_hypercall("FileRead", data).tag = "Some"} # {}
        /\ \E fd \in IoFds, buf \in BufAddrs, len \in Lens : read(fd, buf, len)

\* hypercall::write, after dispatch: entry into the loop.
write(fd, buf, len) ==
  /\ wr' = IF len = 0 THEN NoWr
            ELSE [fd |-> fd, buf |-> buf, len |-> len, bytes_written |-> 0]
  /\ pc' = IF len = 0 THEN "run" ELSE "write"
  /\ last' = [NoLast EXCEPT !.op = "write", !.fd = fd]
  /\ host' = NoHost
  /\ UNCHANGED <<files, hasMap, configured, hostFiles, hostFds, guestFds,
                 output>>

HcWrite ==
  /\ pc = "run"
  /\ UNCHANGED <<idle, store>>
  /\ \/ /\ {data \in Addrs : address_to_hypercall("FileWrite", data).tag = "panic"} # {}
        /\ Panic("write")
     \/ /\ {data \in Addrs : address_to_hypercall("FileWrite", data).tag = "Some"} # {}
        /\ \E fd \in IoFds, buf \in BufAddrs, len \in Lens : write(fd, buf, len)

\* The address the loop translates: syswrite.buf + bytes_written.
WriteGvaNoAdvance(buf, bytes_written) == buf
WriteGva(buf, bytes_written) == buf + bytes_written

\* hypercall::write: one iteration of `while bytes_written != syswrite.len`.
write_step ==
  /\ LET gva == WriteGva(wr.buf, wr.bytes_written)
         rem == wr.len - wr.bytes_written
     IN  IF ~IsSome(virt_to_phys(gva)) THEN Panic("write")
         ELSE IF ~IsSome(host_address(Unwrap(virt_to_phys(gva))))
         THEN \E e \in MemoryErrors :
                IF e = "BoundsViolation" THEN Panic("write")
                ELSE /\ pc' = "run"
                     /\ last' = [NoLast EXCEPT !.op = "write", !.fd = wr.fd,
                                   !.ret = -1]
                     /\ host' = NoHost
                     /\ wr' = NoWr
                     /\ UNCHANGED <<files, hasMap, configured, hostFiles,
                                    hostFds, guestFds, output>>
         ELSE
           /\ \E step \in (-1)..rem :
                /\ (wr.fd \notin hostFds) => step = -1
                /\ host' = [NoHost EXCEPT !.call = "write", !.fd = wr.fd,
                              !.ptr = Unwrap(host_address(Unwrap(virt_to_phys(gva)))),
                              !.len = rem, !.ret = step]
                /\ IF step >= 0
                   THEN /\ wr' = IF wr.bytes_written + step = wr.len
                                   THEN NoWr
                                   ELSE [wr EXCEPT !.bytes_written = @ + step]
                        /\ pc' = IF wr.bytes_written + step = wr.len
                                 THEN "run" ELSE "write"
                        /\ last' = [NoLast EXCEPT !.op = "write",
                                      !.fd = wr.fd, !.ret = 0]
                   ELSE /\ wr' = NoWr
                        /\ pc' = "run"
                        /\ last' = [NoLast EXCEPT !.op = "write",
                                      !.fd = wr.fd, !.ret = -1]
           /\ UNCHANGED <<files, hasMap, configured, hostFiles, hostFds,
                          guestFds, output>>

WriteStep ==
  /\ pc = "write"
  /\ UNCHANGED <<idle, store>>
  /\ write_step

\* hypercall::lseek, after dispatch.
lseek(fd) ==
  /\ pc' = "run"
  /\ host' = [NoHost EXCEPT !.call = "lseek", !.fd = fd,
                !.ret = IF fd \in hostFds THEN 0 ELSE -1]
  /\ last' = [NoLast EXCEPT !.op = "lseek", !.fd = fd,
                !.ret = IF fd \in hostFds THEN 0 ELSE -1]
  /\ UNCHANGED <<files, hasMap, configured, hostFiles, hostFds, guestFds, wr, output>>

HcLseek ==
  /\ pc = "run"
  /\ UNCHANGED <<idle, store>>
  /\ \/ /\ {data \in Addrs : address_to_hypercall("FileLseek", data).tag = "panic"} # {}
        /\ Panic("lseek")
     \/ /\ {data \in Addrs : address_to_hypercall("FileLseek", data).tag = "Some"} # {}
        /\ \E fd \in IoFds : lseek(fd)

\* hypercall::unlink, after dispatch and after the unwrap of
\* host_address(sysunlink.name); `name` is the string found there.
unlink(name) ==
    /\ pc' = "run"
    /\ host' = [NoHost EXCEPT !.call = "unlink", !.path = name,
                  !.ret = IF name \in hostFiles THEN 0 ELSE -1]
    /\ hostFiles' = hostFiles \ {name}
    /\ last' = [NoLast EXCEPT !.op = "unlink", !.name = name,
                  !.ret = IF name \in hostFiles THEN 0 ELSE -1]
    /\ UNCHANGED <<files, hasMap, configured, hostFds, guestFds, wr, output>>

HcUnlink ==
  /\ pc = "run"
  /\ UNCHANGED <<idle, store>>
  /\ \/ /\ {data \in Addrs : address_to_hypercall("FileUnlink", data).tag = "panic"} # {}
        /\ Panic("unlink")
     \/ /\ {data \in Addrs : address_to_hypercall("FileUnlink", data).tag = "Some"} # {}
        /\ \/ /\ {a \in NameAddrs : ~IsSome(host_address(a))} # {}
              /\ Panic("unlink")
           \/ /\ {a \in NameAddrs : IsSome(host_address(a))} # {}
              /\ \E name \in GuestNames : unlink(name)

\* An exit on a port outside the reserved set: no hypercall, vCPU resumed.
HcUnknownPort ==
  /\ pc = "run"
  /\ UNCHANGED <<idle, store>>
  /\ address_to_hypercall("unreserved", 0).tag = "None"
  /\ last' = [NoLast EXCEPT !.op = "unknown_port"]
  /\ host' = NoHost
  /\ UNCHANGED <<files, hasMap, configured, hostFiles, hostFds, guestFds, pc,
                 wr, output>>

Next ==
  \/ HcOpen
  \/ HcClose
  \/ HcRead
  \/ HcWrite
  \/ WriteStep
  \/ HcLseek
  \/ HcUnlink
  \/ HcUnknownPort

Spec == Init /\ [][Next]_vars

(***************************************************************************)
(* Claims about the path map.                                              *)
(***************************************************************************)
\* Component-wise "equals or lies beneath".
IsBeneath(p, q) ==
  LET cp == Components(p)
      cq == Components(q)
  IN  p = q \/ (Len(cq) <= Len(cp) /\ SubSeq(cp, 1, Len(cq)) = cq)

\* C4: get_host_path(p) returns a host path only if p equals or lies
\* beneath a guest path configured at construction or added by a
\* create-on-miss; otherwise it returns none and leaves the map unchanged.
C4_OnlyConfiguredResolve ==
  last.op = "get_host_path" =>
    /\ IsSome(last.res) => \E q \in configured : IsBeneath(last.name, q)
    /\ ~IsSome(last.res) => ~last.changed

(***************************************************************************)
(* Claims about the hypercall handlers.                                    *)
(***************************************************************************)
\* Whether the path map resolves a guest path (exactly or through a mapped
\* ancestor).
Resolves(name) == IsSome(get_host_path(files, name)[1])

InRegion(ptr, len) == MemBase <= ptr /\ ptr + len <= MemBase + MemSize

FdCalls == {"read", "write", "lseek", "close"}

\* C1: every host open made for an open hypercall targets the host path
\* the path map associates with the guest-supplied path, never the
\* guest-supplied string itself, whatever the mapping configuration.
C1_HostOpenOnlyMappedPath ==
  (last.op = "open" /\ host.call = "open") =>
    /\ last.name \in DOMAIN files
    /\ host.path = files[last.name]

\* C2: the whole byte range [ptr, ptr + len) handed to a host read or
\* write lies inside the guest memory region.
C2_HostBufferInsideRegion ==
  host.call \in {"read", "write"} => InRegion(host.ptr, host.len)

\* C3: no hypercall aborts the hypervisor because of guest-chosen values.
C3_NeverAborts == pc # "aborted"

\* The guest's flags restricted to the allowed set.
Masked(flags) == BitAnd(flags, ALLOWED_OPEN_FLAGS)

\* A step that handled an open hypercall to completion.
OpenDone == last'.op = "open" /\ pc' = "run"

\* C5: the flags the host open receives are the guest's flags masked with
\* ALLOWED_OPEN_FLAGS, plus EXCL when the path did not resolve and
\* create-on-miss forces it; no other bit reaches the host.
C5_FlagsMasked ==
  [][(OpenDone /\ host'.call = "open") =>
       \/ host'.flags = Masked(last'.flags)
       \/ /\ ~Resolves(last'.name)
          /\ host'.flags = BitOr(Masked(last'.flags), O_EXCL)]_vars

\* C6: an open with both DIRECTORY and CREAT writes -EINVAL to ret, makes
\* no host call and leaves the path map unchanged.
C6_DirectoryCreatRejected ==
  [][(OpenDone /\ IsUtf8(last'.name)
        /\ HasFlag(last'.flags, O_DIRECTORY) /\ HasFlag(last'.flags, O_CREAT)) =>
       /\ last'.ret = -EINVAL
       /\ host'.call = "none"
       /\ files' = files]_vars

\* C7: an open of a path the map does not resolve, without CREAT, writes
\* -ENOENT to ret, performs no host open, creates no host file and leaves
\* the path map unchanged.
C7_UnresolvedWithoutCreat ==
  [][(OpenDone /\ IsUtf8(last'.name)
        /\ ~Resolves(last'.name) /\ ~HasFlag(last'.flags, O_CREAT)) =>
       /\ last'.ret = -ENOENT
       /\ host'.call = "none"
       /\ hostFiles' = hostFiles
       /\ files' = files]_vars

\* C8: an open with CREAT of a path the map does not resolve host-opens a
\* fresh path inside the temporary directory with EXCL added, returns the
\* new descriptor when the host open succeeds, and the map afterwards maps
\* the guest path to that host path.
C8_CreateOnMissInTmpDir ==
  [][(OpenDone /\ IsUtf8(last'.name) /\ ~Resolves(last'.name)
        /\ HasFlag(last'.flags, O_CREAT)
        /\ ~HasFlag(last'.flags, O_DIRECTORY)) =>
       /\ host'.call = "open"
       /\ IsBeneath(host'.path, TmpDir)
       /\ host'.path # TmpDir
       /\ host'.path \notin hostFiles
       /\ HasFlag(host'.flags, O_EXCL)
       /\ hostFds' # hostFds => last'.ret >= 0
       /\ last'.name \in DOMAIN files'
       /\ files'[last'.name] = host'.path]_vars

\* C9: a host read, write, lseek or close is issued only for a descriptor
\* that is in the open-fd set when the hypercall is handled.
C9_HostFdCallsOnlyOnOpenFds ==
  [][host'.call \in FdCalls => host'.fd \in guestFds]_vars

\* C10: the open-fd set (the descriptors returned by successful opens and
\* not successfully closed since) never contains a negative value or 0, 1
\* or 2, and a descriptor just closed successfully is not in it.
C10_FdSetPolicy ==
  /\ \A fd \in guestFds : fd >= 0 /\ fd \notin {0, 1, 2}
  /\ (last.op = "close" /\ last.ret = 0) => last.fd \notin guestFds

\* C11: an unlink hypercall host-unlinks only the host path the path map
\* associates with the guest-supplied name; for a name the map does not
\* resolve it writes -ENOENT to ret and removes no host file.
C11_UnlinkOnlyMappedPath ==
  [][(last'.op = "unlink" /\ pc' = "run" /\ IsUtf8(last'.name)) =>
       IF Resolves(last'.name)
       THEN host'.call = "unlink" =>
              host'.path = Unwrap(get_host_path(files, last'.name)[1])
       ELSE /\ last'.ret = -ENOENT
            /\ host'.call = "none"
            /\ hostFiles' = hostFiles]_vars

\* C12: an open of a guest path that is not a key of the path map but lies
\* beneath a mapped guest directory is resolved through that directory: the
\* host open targets the mapped host directory extended by the remaining
\* components.
C12_OpenBeneathMappedDirectory ==
  [][(OpenDone /\ hasMap /\ IsUtf8(last'.name)
        /\ last'.name \notin DOMAIN files /\ Resolves(last'.name)) =>
       /\ host'.call = "open"
       /\ host'.path = Unwrap(get_host_path(files, last'.name)[1])]_vars

(***************************************************************************)
(* Further claims about the path map.                                      *)
(***************************************************************************)
\* The host path configured for the i-th parameter: canonicalize(host) if
\* that succeeds, host verbatim otherwise.
ConfiguredHost(parameter) ==
  LET host_path == SplitAt(parameter, Colon)[1]
  IN  IF IsSome(Canonicalize(host_path)) THEN Unwrap(Canonicalize(host_path))
      ELSE host_path

ConfiguredGuest(parameter) == SplitAt(parameter, Colon)[2]

\* C14: for every (host, guest) pair of the parameter list given to the
\* path map, get_host_path(guest) is canonicalize(host) if canonicalization
\* succeeds and host verbatim otherwise.
C14_ConfiguredPairsResolve ==
  IsSome(params) =>
    \A i \in 1..Len(Unwrap(params)) :
      get_host_path(files, ConfiguredGuest(Unwrap(params)[i]))[1]
        = Some(ConfiguredHost(Unwrap(params)[i]))

\* C15: for a guest path p whose parent is mapped, get_host_path(p) leaves
\* the exact pair (p, host_p) in the map, keyed by the full guest path p,
\* and a second call yields the same result.
C15_ChildTraversalIdempotent ==
  [][(last'.op = "get_host_path"
        /\ IsSome(Parent(last'.name))
        /\ Unwrap(Parent(last'.name)) \in DOMAIN files) =>
       /\ IsSome(last'.res)
       /\ last'.name \in DOMAIN files'
       /\ files'[last'.name] = Unwrap(last'.res)
       /\ get_host_path(files', last'.name)[1] = last'.res]_vars

\* The mapped proper ancestors of a guest path, and the nearest of them.
MappedAncestors(m, p) ==
  IF IsSome(Parent(p))
  THEN LET anc == Ancestors(Unwrap(Parent(p)))
       IN  {anc[i] : i \in 1..Len(anc)} \cap DOMAIN m
  ELSE {}

NearestMapped(m, p) ==
  CHOOSE a \in MappedAncestors(m, p) :
    \A b \in MappedAncestors(m, p) :
      Len(Components(b)) <= Len(Components(a))

RECURSIVE Extend(_, _)
\* A path extended by components, one push each.
Extend(base, comps) ==
  IF comps = <<>> THEN base
  ELSE Extend(Push(base, Head(comps)), Tail(comps))

others == <<files, hasMap, configured, hostFiles, hostFds, guestFds, pc, wr,
            last, host, params, fdTab, content, output, guest>>

\* A VM constructed without mappings, before its first hypercall.
Boot ==
  /\ files = UhyveFileMapNew(None)
  /\ params = None
  /\ hasMap = FALSE
  /\ configured = {}
  /\ HostInit
  /\ guestFds = {}
  /\ pc = "run"
  /\ wr = NoWr
  /\ last = NoLast
  /\ host = NoHost
  /\ output = NoOutput
  /\ guest = NoGuest

\* The ports and data values of an I/O exit.
DispatchPorts == ReservedPorts \cup {"unreserved", "unreserved2"}
DispatchData == {0, MemBase, MemBase + MemSize - RecLen,
                 MemBase + MemSize - 1, MaxAddr, 256 + MemBase, 511}

InitDispatch ==
  /\ Boot
  /\ inp \in DispatchPorts \X DispatchData
  /\ out = None

Dispatch ==
  /\ out = None
  /\ out' = Some(address_to_hypercall(inp[1], inp[2]))
  /\ UNCHANGED <<inp, others>>

SpecDispatch == InitDispatch /\ [][Dispatch]_vars

\* C17: address_to_hypercall returns none exactly for the ports outside the
\* reserved set, without touching guest memory; for a reserved port and an
\* in-bounds data address it returns the variant assigned to that port,
\* carrying the record at that address; for the serial byte port it returns
\* the low 8 bits of data and reads no guest memory, whatever data is.
C17_DispatchByPort ==
  IsSome(out) =>
    LET port == inp[1]
        data == inp[2]
        r == Unwrap(out)
    IN  /\ (r.tag = "None") <=> (port \notin ReservedPorts)
        /\ (r.tag = "None") => (r.borrow = None)
        /\ (port = "Uart") =>
             /\ r.tag = "Some"
             /\ r.variant = "SerialWriteByte"
             /\ r.payload = data % 256
             /\ r.borrow = None
        /\ (port \in ReservedPorts \ {"Uart"} /\ get_ref_mut(data)) =>
             /\ r.tag = "Some"
             /\ r.variant = (IF port = "SerialBufferWrite"
                             THEN "SerialWriteBuffer" ELSE port)
             /\ r.payload = data
             /\ r.borrow = Some(data)

\* The serial byte port was dispatched with a data value that is no guest
\* address and does not fit in a byte.
C17_Witness ==
  /\ IsSome(out)
  /\ inp = <<"Uart", 511>>
  /\ Unwrap(out).payload = 255

(***************************************************************************)
(* copy_argv (the Cmdval hypercall), applied on its own.  Guest memory is  *)
(* a sequence of bytes, address a at index a + 1, zeroed to begin with.    *)
(***************************************************************************)
Nul == "NUL"
ArgvMemSize == 12
ZeroMem == [i \in 1..ArgvMemSize |-> Nul]

\* MmapMemory::slice_at_mut(addr, len): whether the slice lies in memory.
slice_ok(addr, len) == 0 <= addr /\ addr + len <= ArgvMemSize

\* dest[0..len].copy_from_slice(bytes); dest[len] = 0, dest at address addr.
CopyCString(m, addr, bytes) ==
  [i \in 1..ArgvMemSize |->
     IF addr < i /\ i <= addr + Len(bytes) THEN bytes[i - addr]
     ELSE IF i = addr + Len(bytes) + 1 THEN Nul
     ELSE m[i]]

RECURSIVE CopyArguments(_, _, _, _)
\* The loop `for (counter, argument) in argv.iter().enumerate()`, from
\* `counter` on: each argument goes to arg_addrs[counter] (0-based).
\* Yields the memory, or None where an expect panics.
CopyArguments(m, argv, arg_addrs, counter) ==
  IF counter >= Len(argv) THEN Some(m)
  ELSE LET argument == argv[counter + 1]
           dest == arg_addrs[counter + 1]
       IN  IF slice_ok(dest, Len(argument) + 1)
           THEN CopyArguments(CopyCString(m, dest, argument), argv,
                              arg_addrs, counter + 1)
           ELSE None

\* copy_argv(path, argv, syscmdval, mem); arg_addrs is the guest's address
\* array at syscmdval.argv, argv.len() + 1 slots long.
copy_argv(path, argv, arg_addrs, m) ==
  IF slice_ok(arg_addrs[1], Len(path) + 1)
  THEN CopyArguments(CopyCString(m, arg_addrs[1], path), argv, arg_addrs, 0)
  ELSE None

\* Kernel paths, application arguments, and the guest's address arrays.
KernelPaths == {<<"k">>, <<"k", "e">>}
ArgStrings == {<<"a">>, <<"b">>, <<"c", "d">>, <<>>}
ArgLists == {<<>>} \cup {<<a>> : a \in ArgStrings}
              \cup {<<a, b>> : a \in ArgStrings, b \in ArgStrings}
ArgAddrArrays == {<<0, 4, 8>>, <<8, 4, 0>>}

InitArgv ==
  /\ Boot
  /\ \E path \in KernelPaths, argv \in ArgLists, addrs \in ArgAddrArrays :
       inp = [path |-> path, argv |-> argv,
              arg_addrs |-> SubSeq(addrs, 1, Len(argv) + 1)]
  /\ out = None

CopyArgv ==
  /\ out = None
  /\ out' = Some(copy_argv(inp.path, inp.argv, inp.arg_addrs, ZeroMem))
  /\ UNCHANGED <<inp, others>>

SpecArgv == InitArgv /\ [][CopyArgv]_vars

\* The bytes of memory m from address addr on, len of them.
BytesAt(m, addr, len) == [i \in 1..len |-> m[addr + i]]

\* C18: after the Cmdval argument copy with kernel path P and arguments
\* a_1..a_n, the destination named by slot 0 of the argv address array
\* holds P followed by a NUL byte, and the destination named by slot i holds
\* a_i followed by a NUL byte, for every 1 <= i <= n.
C18_ArgvCopied ==
  (IsSome(out) /\ IsSome(Unwrap(out))) =>
    LET m == Unwrap(Unwrap(out))
    IN  /\ BytesAt(m, inp.arg_addrs[1], Len(inp.path) + 1)
             = inp.path \o <<Nul>>
        /\ \A i \in 1..Len(inp.argv) :
             BytesAt(m, inp.arg_addrs[i + 1], Len(inp.argv[i]) + 1)
               = inp.argv[i] \o <<Nul>>

(***************************************************************************)
(* The host's files followed: what each descriptor is open on and what     *)
(* the host calls of the handlers leave in the files.                      *)
(***************************************************************************)
\* The byte the host process finds at a host pointer: what the guest put
\* there when the pointer lies in the guest region, and some other byte of
\* the hypervisor's address space when it does not.
ByteAt(ptr) ==
  IF MemBase <= ptr /\ ptr < MemBase + MemSize THEN <<"guest", ptr>>
  ELSE <<"host", ptr>>
BytesFrom(ptr, n) == [i \in 1..n |-> ByteAt(ptr + i - 1)]

\* The bytes of a host object; an object never written is empty.
ContentOf(path) == IF path \in DOMAIN content THEN content[path] ELSE <<>>

\* The largest file the host stores; a write past it fails.
MaxFileLen == 2

\* The standard streams take what is written to them at their end.
Streams == {Stdin, Stdout, Stderr}

\* What a descriptor stays open on once its file has been unlinked.
Unlinked == <<"unlinked">>

Remove(m, k) == [x \in (DOMAIN m) \ {k} |-> m[x]]

\* The bytes of a file after `bytes` are written at offset off <= Len(old).
WriteAt(old, off, bytes) ==
  [i \in 1..(IF Len(old) > off + Len(bytes) THEN Len(old)
             ELSE off + Len(bytes)) |->
     IF off < i /\ i <= off + Len(bytes) THEN bytes[i - off] ELSE old[i]]

\* What the host call of the step just taken (host', with its result) does
\* to the descriptor table and to the files.
HostStore ==
  LET c == host'
  IN  CASE c.call = "open" /\ c.ret >= 0 ->
             /\ fdTab' = Insert(fdTab, c.ret, [path |-> c.path, off |-> 0])
             /\ content' = IF HasFlag(c.flags, O_TRUNC)
                           THEN Remove(content, c.path) ELSE content
        [] c.call = "close" ->
             /\ fdTab' = Remove(fdTab, c.fd)
             /\ UNCHANGED content
        [] c.call = "write" /\ c.ret > 0 ->
             LET path == fdTab[c.fd].path
                 off == IF path \in Streams THEN Len(ContentOf(path))
                        ELSE fdTab[c.fd].off
             IN  /\ off + c.ret <= MaxFileLen
                 /\ fdTab' = IF path \in Streams THEN fdTab
                             ELSE [fdTab EXCEPT ![c.fd].off = off + c.ret]
                 /\ content' = IF path = Unlinked THEN content
                               ELSE Insert(content, path,
                                           WriteAt(ContentOf(path), off,
                                                   BytesFrom(c.ptr, c.ret)))
        [] c.call = "write_all" /\ c.ret >= 0 ->
             LET path == fdTab[c.fd].path
             IN  /\ Len(ContentOf(path)) + Len(c.data) <= MaxFileLen
                 /\ content' = IF c.data = <<>> THEN content
                               ELSE Insert(content, path,
                                           ContentOf(path) \o c.data)
                 /\ UNCHANGED fdTab
        [] c.call = "read" /\ c.ret > 0 ->
             /\ c.ret <= Len(ContentOf(fdTab[c.fd].path)) - fdTab[c.fd].off
             /\ fdTab' = [fdTab EXCEPT ![c.fd].off = @ + c.ret]
             /\ UNCHANGED content
        [] c.call = "lseek" /\ c.ret >= 0 ->
             /\ fdTab' = [fdTab EXCEPT ![c.fd].off = c.ret]
             /\ UNCHANGED content
        [] c.call = "unlink" /\ c.ret >= 0 ->
             /\ fdTab' = [fd \in DOMAIN fdTab |->
                            IF fdTab[fd].path = c.path
                            THEN [fdTab[fd] EXCEPT !.path = Unlinked]
                            ELSE fdTab[fd]]
             /\ content' = Remove(content, c.path)
        [] OTHER -> UNCHANGED store

(***************************************************************************)
(* A guest that creates one file: open(name, O_WRONLY | O_CREAT | O_EXCL), *)
(* write(fd, B) with B inside guest memory, close(fd), and nothing else.   *)
(***************************************************************************)
FileParamLists ==
  { Some(<<Param(H_h, G_g), Param(H_n, G_d)>>),
    Some(<<Param(H_n, G_gs)>>),
    None }
FileNames == {G_g, G_gs, G_d}
\* The buffers B: every non-empty range inside the region.
FileBuffers ==
  {b \in (MemBase..(MemBase + MemSize - 1)) \X (1..MaxLen) :
     b[1] + b[2] <= MemBase + MemSize}

InitFile ==
  /\ \E parameters \in FileParamLists :
       /\ files = UhyveFileMapNew(parameters)
       /\ params = parameters
       /\ hasMap = IsSome(parameters)
  /\ HostInit
  /\ configured = DOMAIN files
  /\ guestFds = {}
  /\ pc = "run"
  /\ wr = NoWr
  /\ last = NoLast
  /\ host = NoHost
  /\ output = NoOutput
  /\ guest = [NoGuest EXCEPT !.step = "start"]
  /\ inp = None
  /\ out = None

Failed(g) == [g EXCEPT !.step = "failed"]

FileOpen ==
  /\ pc = "run"
  /\ guest.step = "start"
  /\ address_to_hypercall("FileOpen", MemBase).tag = "Some"
  /\ IsSome(host_address(MemBase))
  /\ \E name \in FileNames :
       /\ open(name, O_WRONLY + O_CREAT + O_EXCL)
       /\ guest' = IF last'.ret >= 0
                   THEN [guest EXCEPT !.step = "opened", !.name = name,
                                      !.fd = last'.ret]
                   ELSE Failed([guest EXCEPT !.name = name])
  /\ HostStore
  /\ UNCHANGED <<params, inp, out>>

FileWrite ==
  /\ pc = "run"
  /\ guest.step = "opened"
  /\ address_to_hypercall("FileWrite", MemBase).tag = "Some"
  /\ \E b \in FileBuffers :
       /\ write(guest.fd, b[1], b[2])
       /\ guest' = [guest EXCEPT !.step = "writing",
                                 !.bytes = BytesFrom(b[1], b[2])]
  /\ HostStore
  /\ UNCHANGED <<params, inp, out>>

FileWriteStep ==
  /\ pc = "write"
  /\ guest.step = "writing"
  /\ write_step
  /\ HostStore
  /\ guest' = IF pc' = "aborted" \/ last'.ret < 0 THEN Failed(guest)
              ELSE IF pc' = "run" THEN [guest EXCEPT !.step = "written"]
              ELSE guest
  /\ UNCHANGED <<params, inp, out>>

FileClose ==
  /\ pc = "run"
  /\ guest.step = "written"
  /\ address_to_hypercall("FileClose", MemBase).tag = "Some"
  /\ close(guest.fd)
  /\ HostStore
  /\ guest' = IF last'.ret = 0 THEN [guest EXCEPT !.step = "closed"]
              ELSE Failed(guest)
  /\ UNCHANGED <<params, inp, out>>

NextFile == FileOpen \/ FileWrite \/ FileWriteStep \/ FileClose

SpecFile == InitFile /\ [][NextFile]_vars

\* The guest's path is one of the configured guest paths and its host
\* path did not exist when the VM was started.
MappedToNewFile(name) ==
  /\ IsSome(params)
  /\ name \in DOMAIN UhyveFileMapNew(params)
  /\ UhyveFileMapNew(params)[name] \notin HostExisting \cup {H_l}

\* C13: for a guest path mapped to host path H, the hypercall sequence
\* open(guest path, WRONLY|CREAT|EXCL), write(fd, B), close(fd) leaves a
\* host file at H whose content is exactly the bytes B, and a guest doing
\* only this sees no hypercall fail unless a host call failed (it exits
\* with code 0).
C13_CreatedFileHoldsBytes ==
  MappedToNewFile(guest.name) =>
    /\ pc # "aborted"
    /\ guest.step = "closed" =>
         LET H == UhyveFileMapNew(params)[guest.name]
         IN  /\ H \in hostFiles
             /\ ContentOf(H) = guest.bytes
    /\ guest.step = "failed" => (host.call # "none" /\ host.ret < 0)

C13_Witness ==
  /\ guest.step = "closed"
  /\ MappedToNewFile(guest.name)
  /\ Len(guest.bytes) = 2
  /\ ContentOf(UhyveFileMapNew(params)[guest.name]) = guest.bytes

(***************************************************************************)
(* Serial output: a VM with one of the four sinks, and a guest that sends  *)
(* bytes through the serial byte port, the serial buffer port and writes   *)
(* to descriptors 1 and 2.                                                 *)
(***************************************************************************)
SerialSinks == {"StdIo", "None", "Buffer", "File"}
\* The file of a File sink, created when the VM is constructed.
OutFile == <<"/", "o">>
OutFd == 3

\* The values of the data register at a serial byte write: an ASCII
\* letter, and a value whose low byte alone is not valid UTF-8.
SerialData == {72, 256 + 255}
SerialByte(data) == <<"byte", address_to_hypercall("Uart", data).payload>>

\* str::from_utf8 on a slice: guest memory holds ASCII text.
IsUtf8Bytes(buf) ==
  \A i \in 1..Len(buf) : buf[i][1] = "guest" \/ buf[i][2] < 128

InitSerial ==
  /\ files = UhyveFileMapNew(None)
  /\ params = None
  /\ hasMap = FALSE
  /\ configured = {}
  /\ guestFds = {}
  /\ pc = "run"
  /\ wr = NoWr
  /\ last = NoLast
  /\ host = NoHost
  /\ content = EmptyMap
  /\ \E kind \in SerialSinks :
       /\ output = [kind |-> kind, buf |-> <<>>]
       /\ hostFiles = HostExisting \cup {H_l}
                        \cup (IF kind = "File" THEN {OutFile} ELSE {})
       /\ hostFds = {0, 1, 2} \cup (IF kind = "File" THEN {OutFd} ELSE {})
       /\ fdTab = [fd \in hostFds |->
                     [path |-> CASE fd = 0 -> Stdin [] fd = 1 -> Stdout
                                 [] fd = 2 -> Stderr [] OTHER -> OutFile,
                      off |-> 0]]
  /\ guest = [NoGuest EXCEPT !.step = "serial"]
  /\ inp = None
  /\ out = None

\* The guest has sent `bytes` more.
Sent(bytes) ==
  /\ Len(guest.bytes) + Len(bytes) <= MaxFileLen
  /\ guest' = [guest EXCEPT !.bytes = @ \o bytes]

\* io::stdout().write_all(buf)
StdoutWriteAll(buf) ==
  host' = [NoHost EXCEPT !.call = "write_all", !.fd = 1, !.len = Len(buf),
             !.data = buf]

\* hypercall::uart
uart(buf) ==
  /\ StdoutWriteAll(buf)
  /\ pc' = "run"
  /\ last' = [NoLast EXCEPT !.op = "uart"]
  /\ UNCHANGED <<files, hasMap, configured, hostFiles, hostFds, guestFds, wr,
                 output>>

\* hypercall::uart_buffer
uart_buffer(buf, len) ==
  IF ~(MemBase <= buf /\ buf + len <= MemBase + MemSize)
  THEN Panic("uart_buffer")
  ELSE /\ StdoutWriteAll(BytesFrom(buf, len))
       /\ pc' = "run"
       /\ last' = [NoLast EXCEPT !.op = "uart_buffer"]
       /\ UNCHANGED <<files, hasMap, configured, hostFiles, hostFds,
                      guestFds, wr, output>>

\* UhyveVm::serial_output
serial_output(buf) ==
  /\ pc' = "run"
  /\ UNCHANGED <<files, hasMap, configured, hostFiles, hostFds, guestFds, wr>>
  /\ CASE output.kind = "StdIo" ->
            /\ StdoutWriteAll(buf)
            /\ last' = [NoLast EXCEPT !.op = "serial_output"]
            /\ UNCHANGED output
       [] output.kind = "None" ->
            /\ host' = NoHost
            /\ last' = [NoLast EXCEPT !.op = "serial_output"]
            /\ UNCHANGED output
       [] output.kind = "Buffer" ->
            /\ host' = NoHost
            /\ IF IsUtf8Bytes(buf)
               THEN /\ output' = [output EXCEPT !.buf = @ \o buf]
                    /\ last' = [NoLast EXCEPT !.op = "serial_output"]
               ELSE /\ last' = [NoLast EXCEPT !.op = "serial_output",
                                  !.ret = -1]
                    /\ UNCHANGED output
       [] output.kind = "File" ->
            /\ host' = [NoHost EXCEPT !.call = "write_all", !.fd = OutFd,
                          !.len = Len(buf), !.data = buf]
            /\ last' = [NoLast EXCEPT !.op = "serial_output"]
            /\ UNCHANGED output

\* A serial byte write handled by hypercall::uart.
SerialUart ==
  /\ pc = "run"
  /\ \E data \in SerialData :
       /\ address_to_hypercall("Uart", data).tag = "Some"
       /\ uart(<<SerialByte(data)>>)
       /\ Sent(<<SerialByte(data)>>)
  /\ HostStore
  /\ UNCHANGED <<params, inp, out>>

\* A serial buffer write handled by hypercall::uart_buffer.
SerialUartBuffer ==
  /\ pc = "run"
  /\ address_to_hypercall("SerialBufferWrite", MemBase).tag = "Some"
  /\ \E buf \in BufAddrs \cup {MemBase}, len \in Lens :
       /\ uart_buffer(buf, len)
       /\ Sent(IF pc' = "aborted" THEN <<>> ELSE BytesFrom(buf, len))
  /\ HostStore
  /\ UNCHANGED <<params, inp, out>>

\* A serial byte or buffer write handed to UhyveVm::serial_output.
SerialOutput ==
  /\ pc = "run"
  /\ \E buf \in {<<SerialByte(data)>> : data \in SerialData}
                 \cup {BytesFrom(b[1], b[2]) : b \in FileBuffers} :
       /\ serial_output(buf)
       /\ Sent(buf)
  /\ HostStore
  /\ UNCHANGED <<params, inp, out>>

\* A guest write to descriptor 1 or 2, handled by hypercall::write.
SerialWrite ==
  /\ pc = "run"
  /\ address_to_hypercall("FileWrite", MemBase).tag = "Some"
  /\ \E fd \in {1, 2}, b \in FileBuffers :
       /\ write(fd, b[1], b[2])
       /\ Sent(BytesFrom(b[1], b[2]))
  /\ HostStore
  /\ UNCHANGED <<params, inp, out>>

SerialWriteStep ==
  /\ pc = "write"
  /\ write_step
  /\ HostStore
  /\ UNCHANGED <<params, guest, inp, out>>

NextSerial ==
  \/ SerialUart
  \/ SerialUartBuffer
  \/ SerialOutput
  \/ SerialWrite
  \/ SerialWriteStep

SpecSerial == InitSerial /\ [][NextSerial]_vars

\* C20: with the buffer sink configured, after any sequence of serial byte
\* writes, serial buffer writes and guest writes to fd 1 or 2, the output
\* string equals the concatenation of the written bytes in the order the
\* hypercalls were handled, and none of those bytes is written to the
\* host's standard output or to a host file descriptor.
C20_BufferSinkCollectsAll ==
  (output.kind = "Buffer" /\ pc = "run") =>
    /\ output.buf = guest.bytes
    /\ ContentOf(Stdout) = <<>>
    /\ ContentOf(Stderr) = <<>>
    /\ host.call \notin {"write", "write_all"}

(***************************************************************************)
(* The boot page tables.  Addresses are counted in 4 KiB pages (every     *)
(* address the two initialisers handle is page-aligned), so 0x11120000 is  *)
(* page 0x11120 = 69920.  Guest memory is zeroed and is written as the     *)
(* set of table entries that are not zero: <<page of the table, index>>    *)
(* -> entry, the page being guest-physical.                                *)
(***************************************************************************)
PML4_OFFSET == 16
PDPTE_OFFSET == 17
PDE_OFFSET == 18
MIN_PHYSMEM_SIZE == 19
PAGETABLES_OFFSET == 17
PAGETABLES_END == 19
\* Page::<Size2MiB>::SIZE and the number of entries of a table.
Size2MiB == 512
EntryCount == 512

PRESENT == "PRESENT"
WRITABLE == "WRITABLE"
HUGE_PAGE == "HUGE_PAGE"
ZeroEntry == [addr |-> 0, flags |-> {}]
EntryAt(m, table, index) ==
  IF <<table, index>> \in DOMAIN m THEN m[<<table, index>>] ELSE ZeroEntry

\* VirtAddr::p4_index, p3_index, p2_index of a page-aligned address.
p2_index(a) == (a \div EntryCount) % EntryCount
p3_index(a) == (a \div (EntryCount * EntryCount)) % EntryCount
p4_index(a) == (a \div (EntryCount * EntryCount * EntryCount)) % EntryCount

Panicked == [tag |-> "panic", mem |-> EmptyMap]

\* MappedPageTable::create_next_table on the entry `index` of `table`, with
\* the bump allocator at start + cnt of `length` frames: the memory, the
\* allocator's count and the next table, or a failed allocation.
create_next_table(m, table, index, start, length, cnt) ==
  LET entry == EntryAt(m, table, index)
  IN  IF entry = ZeroEntry
      THEN IF cnt < length
           THEN [ok |-> TRUE,
                 mem |-> Insert(m, <<table, index>>,
                                [addr |-> start + cnt,
                                 flags |-> {PRESENT, WRITABLE}]),
                 cnt |-> cnt + 1,
                 next |-> start + cnt]
           ELSE [ok |-> FALSE, mem |-> m, cnt |-> cnt, next |-> 0]
      ELSE [ok |-> HUGE_PAGE \notin entry.flags,
            mem |-> Insert(m, <<table, index>>,
                           [entry EXCEPT !.flags = @ \cup {PRESENT, WRITABLE}]),
            cnt |-> cnt,
            next |-> entry.addr]

\* Mapper::identity_map of the 2 MiB frame that starts at addr: the page is
\* the 2 MiB page containing addr, the entry holds addr.
identity_map(m, pml4, addr, start, length, cnt) ==
  LET page == (addr \div Size2MiB) * Size2MiB
      p3 == create_next_table(m, pml4, p4_index(page), start, length, cnt)
      p2 == create_next_table(p3.mem, p3.next, p3_index(page), start, length,
                              p3.cnt)
  IN  IF ~p3.ok THEN [ok |-> FALSE, mem |-> m, cnt |-> cnt]
      ELSE IF ~p2.ok THEN [ok |-> FALSE, mem |-> m, cnt |-> cnt]
      ELSE IF EntryAt(p2.mem, p2.next, p2_index(page)) # ZeroEntry
      THEN [ok |-> FALSE, mem |-> m, cnt |-> cnt]
      ELSE [ok |-> TRUE,
            mem |-> Insert(p2.mem, <<p2.next, p2_index(page)>>,
                           [addr |-> addr,
                            flags |-> {PRESENT, WRITABLE, HUGE_PAGE}]),
            cnt |-> p2.cnt]

RECURSIVE MapKernel(_, _, _, _, _, _, _)
\* The loop over (guest_address..guest_address + length).step_by(2 MiB),
\* from addr on; each identity_map is unwrapped.
MapKernel(m, pml4, addr, end, start, length, cnt) ==
  IF addr >= end THEN [tag |-> "ok", mem |-> m]
  ELSE LET r == identity_map(m, pml4, addr, start, length, cnt)
       IN  IF r.ok
           THEN MapKernel(r.mem, pml4, addr + Size2MiB, end, start, length,
                          r.cnt)
           ELSE Panicked

\* arch::x86_64::paging::initialize_pagetables(mem, guest_address, length),
\* mem being the guest memory, which starts at guest_address.
initialize_pagetables(mem_len, guest_address, length) ==
  IF mem_len < MIN_PHYSMEM_SIZE THEN Panicked
  ELSE LET pml4 == guest_address + PML4_OFFSET
           m == Insert(EmptyMap, <<pml4, 511>>,
                       [addr |-> guest_address + PML4_OFFSET,
                        flags |-> {PRESENT, WRITABLE}])
       IN  MapKernel(m, pml4, guest_address, guest_address + length,
                     guest_address + PAGETABLES_OFFSET,
                     PAGETABLES_END - PAGETABLES_OFFSET, 0)

\* UhyvePageTable::new(guest_address).initialize_pagetables(mem), mem being
\* the guest memory, which starts at guest_address: the tables are placed
\* at the offsets BOOT_PML4, BOOT_PDPTE and BOOT_PDE of mem.
UhyvePageTable_initialize_pagetables(mem_len, guest_address) ==
  LET BOOT_PML4 == guest_address + PML4_OFFSET
      BOOT_PDPTE == guest_address + PDPTE_OFFSET
      BOOT_PDE == guest_address + PDE_OFFSET
      pml4 == guest_address + BOOT_PML4
      pdpte == guest_address + BOOT_PDPTE
      pde == guest_address + BOOT_PDE
  IN  IF mem_len < BOOT_PDE + 1 THEN Panicked
      ELSE [tag |-> "ok",
            mem |->
              [k \in {<<pml4, 0>>, <<pml4, 511>>, <<pdpte, 0>>}
                       \cup {<<pde, i>> : i \in 0..(EntryCount - 1)} |->
                 IF k = <<pml4, 0>>
                 THEN [addr |-> BOOT_PDPTE, flags |-> {PRESENT, WRITABLE}]
                 ELSE IF k = <<pml4, 511>>
                 THEN [addr |-> BOOT_PML4, flags |-> {PRESENT, WRITABLE}]
                 ELSE IF k = <<pdpte, 0>>
                 THEN [addr |-> BOOT_PDE, flags |-> {PRESENT, WRITABLE}]
                 ELSE [addr |-> k[2] * Size2MiB,
                       flags |-> {PRESENT, WRITABLE, HUGE_PAGE}]]]

\* The bases of test_pagetable_initialization: 0x0, 0x11120000, 0x111ff000
\* and 0xe1120000.
TestBases == {0, 69920, 70143, 921888}
\* The mapped lengths: one to four 2 MiB steps.
MapLengths == {n * Size2MiB : n \in 1..4}
\* The sizes of guest memory: the test's, 32 MiB, and 8 GiB.
MemLengths == {2 * MIN_PHYSMEM_SIZE, 8192, 2097152}
Initialisers == {"initialize_pagetables",
                 "UhyvePageTable::initialize_pagetables"}

InitPaging ==
  /\ Boot
  /\ \E f \in Initialisers, B \in TestBases, L \in MapLengths,
        n \in MemLengths :
       inp = [f |-> f, guest_address |-> B, length |-> L, mem_len |-> n]
  /\ out = None

InitializePagetables ==
  /\ out = None
  /\ out' = Some(IF inp.f = "initialize_pagetables"
                 THEN initialize_pagetables(inp.mem_len, inp.guest_address,
                                            inp.length)
                 ELSE UhyvePageTable_initialize_pagetables(
                        inp.mem_len, inp.guest_address))
  /\ UNCHANGED <<inp, others>>

SpecPaging == InitPaging /\ [][InitializePagetables]_vars

\* The walk of the claim for gva: from the PML4 at B + PML4_OFFSET through
\* the table addresses stored in the entries, each PRESENT and WRITABLE, to
\* a PDE entry whose address is gva.
WalkReaches(m, B, gva) ==
  LET e4 == EntryAt(m, B + PML4_OFFSET, p4_index(gva))
      e3 == EntryAt(m, e4.addr, p3_index(gva))
      e2 == EntryAt(m, e3.addr, p2_index(gva))
  IN  /\ {PRESENT, WRITABLE} \subseteq e4.flags
      /\ {PRESENT, WRITABLE} \subseteq e3.flags
      /\ {PRESENT, WRITABLE} \subseteq e2.flags
      /\ e2.addr = gva

\* C19: after boot-layout initialisation with guest base B and mapped
\* length L, the walk from the PML4 at B + PML4_OFFSET reaches, for every
\* 2 MiB step address gva of the identity-mapped region, a PDE entry whose
\* mapped physical address equals gva; for every base the test uses.
C19_WalkReachesIdentity ==
  IsSome(out) =>
    /\ Unwrap(out).tag = "ok"
    /\ \A n \in 0..3 :
         (n * Size2MiB < inp.length) =>
           WalkReaches(Unwrap(out).mem, inp.guest_address,
                       inp.guest_address + n * Size2MiB)

(***************************************************************************)
(* get_host_path applied on its own to guest paths with "..", "." and      *)
(* repeated separators.                                                    *)
(***************************************************************************)
DotDot == <<Dot, Dot>>
TraversalParts == {G_g, G_s, DotDot, <<>>}
RECURSIVE Join(_)
\* The parts of a path with a separator between them.
Join(parts) ==
  IF Len(parts) = 1 THEN parts[1]
  ELSE parts[1] \o <<Sep>> \o Join(Tail(parts))
TraversalPaths ==
  {Join(<<a>>) : a \in TraversalParts}
    \cup {Join(<<a, b>>) : a \in TraversalParts, b \in TraversalParts}
    \cup {Join(<<a, b, c>>) : a \in TraversalParts, b \in TraversalParts,
                             c \in TraversalParts}
TraversalParamLists ==
  { Some(<<Param(H_h, G_g)>>),
    Some(<<Param(H_h, G_g), Param(H_n, G_s)>>) }

InitTraversal ==
  /\ Boot
  /\ \E parameters \in TraversalParamLists, guest_path \in TraversalPaths :
       inp = [parameters |-> parameters, guest_path |-> guest_path]
  /\ out = None

Traverse ==
  /\ out = None
  /\ out' = Some(get_host_path(UhyveFileMapNew(inp.parameters),
                               inp.guest_path)[1])
  /\ UNCHANGED <<inp, others>>

SpecTraversal == InitTraversal /\ [][Traverse]_vars

RECURSIVE Located(_, _)
\* The components of the location a host path denotes: ".." leaves the
\* directory reached so far (the root is its own parent).
Located(done, comps) ==
  IF comps = <<>> THEN done
  ELSE IF Head(comps) = DotDot
       THEN Located(IF Len(done) > 1 THEN SubSeq(done, 1, Len(done) - 1)
                    ELSE done, Tail(comps))
       ELSE Located(Append(done, Head(comps)), Tail(comps))

\* Whether host path p denotes a location at or inside host directory q.
LocatedInside(p, q) ==
  LET lp == Located(<<>>, Components(p))
      lq == Located(<<>>, Components(q))
  IN  Len(lq) <= Len(lp) /\ SubSeq(lp, 1, Len(lq)) = lq

\* C25: every host path get_host_path returns denotes a location inside
\* the host directory of a mapped ancestor, also when the guest path has
\* ".." or repeated separators after the mapped prefix; no guest path
\* resolves to a location outside the host paths given in the mapping.
C25_ResolvedInsideMappedHost ==
  (IsSome(out) /\ IsSome(Unwrap(out))) =>
    LET m == UhyveFileMapNew(inp.parameters)
    IN  \E g \in DOMAIN m : LocatedInside(Unwrap(Unwrap(out)), m[g])

(***************************************************************************)
(* hypercall::write against a host whose write results follow a script:    *)
(* the results of successive host writes are results[1], results[2],       *)
(* results[1], ... where a count above the remainder stands for the        *)
(* remainder and -1 for an error.                                          *)
(***************************************************************************)
ScriptLen == 2
WriteResults ==
  {r \in [1..ScriptLen -> (-1)..MaxLen] : TRUE}
WriteCalls ==
  {c \in (MemBase..(MemBase + MemSize - 1)) \X (0..MaxLen) :
     c[1] + c[2] <= MemBase + MemSize}
Min(a, b) == IF a < b THEN a ELSE b

InitWrite ==
  /\ files = EmptyMap
  /\ params = None
  /\ hasMap = FALSE
  /\ HostInit
  /\ configured = {}
  /\ guestFds = {}
  /\ pc = "run"
  /\ wr = NoWr
  /\ last = NoLast
  /\ host = NoHost
  /\ output = NoOutput
  /\ guest = [NoGuest EXCEPT !.step = "start"]
  /\ \E c \in WriteCalls, results \in WriteResults :
       inp = [buf |-> c[1], len |-> c[2], results |-> results]
  /\ out = 1

\* The guest's write hypercall on standard output (fd 1).
WriteCall ==
  /\ pc = "run"
  /\ guest.step = "start"
  /\ address_to_hypercall("FileWrite", MemBase).tag = "Some"
  /\ write(1, inp.buf, inp.len)
  /\ guest' = [guest EXCEPT !.step = "called"]
  /\ UNCHANGED <<params, inp, out, store>>

\* One iteration of the loop; the host write, when the iteration reaches
\* it, returns the next result of the script.
WriteLoop ==
  /\ pc = "write"
  /\ write_step
  /\ (host'.call = "write") =>
       host'.ret = Min(inp.results[out], wr.len - wr.bytes_written)
  /\ out' = (out % ScriptLen) + 1
  /\ UNCHANGED <<params, guest, inp, store>>

NextWrite == WriteCall \/ WriteLoop

SpecWrite == InitWrite /\ [][NextWrite]_vars

\* The handler runs on the vCPU's own thread, which keeps executing the
\* loop while the loop condition holds.
LiveWrite == SpecWrite /\ WF_vars(WriteLoop)

\* C29: the write handler terminates for every len and every sequence of
\* host write results, after finitely many host writes.
C29_WriteTerminates == (pc = "write") ~> (pc # "write")

\* C29, second half: the handler returns success only when the accepted
\* counts add up to len (the last host write accepted the whole remainder).
C29_SuccessMeansAllWritten ==
  (guest.step = "called" /\ pc = "run" /\ last.op = "write" /\ last.ret = 0
     /\ inp.len > 0)
    => (host.call = "write" /\ host.ret = host.len /\ host.ret > 0)

(***************************************************************************)
(* UhyveVm::new and UhyveVm::load_kernel.  Addresses and sizes are counted *)
(* in 4 KiB pages, as in the page-table model above.                       *)
(***************************************************************************)
RAM_START == 0
KERNEL_OFFSET == 64
FDT_OFFSET == 5
BOOT_INFO_OFFSET == 9
INFO_ADDR_OFFSET == BOOT_INFO_OFFSET
KERNEL_STACK_SIZE == 8
\* GuestPhysAddr::new(0x99000), the base given to a relocatable kernel.
RelocatableBase == 153

\* KernelObject::start_addr: None for a relocatable image.
StartAddrs ==
  {None, Some(RAM_START + KERNEL_OFFSET), Some(KERNEL_STACK_SIZE),
   Some(Size2MiB), Some(4 * Size2MiB)}
\* KernelObject::mem_size.
ImageSizes == {1, 3 * Size2MiB, 8 * Size2MiB - KERNEL_OFFSET - 306,
               8 * Size2MiB - KERNEL_OFFSET, 8 * Size2MiB}
\* params.memory_size: multiples of 2 MiB.
MemorySizes == {8 * Size2MiB, 9 * Size2MiB}
\* fdt.len(), rounded up to pages.
FdtLens == {1, BOOT_INFO_OFFSET - FDT_OFFSET}

NoVm ==
  [stage |-> "none", guest_address |-> 0, memory_size |-> 0,
   kernel_address |-> 0, init_guest_mem |-> None, image |-> None,
   fdt |-> None, device_tree |-> None, boot_info |-> None,
   BOOT_INFO_ADDR |-> None, stack_address |-> None]

\* UhyvePageTable::new(guest_address).BOOT_INFO_ADDR.
UhyvePageTable_new_BOOT_INFO_ADDR(guest_address) == INFO_ADDR_OFFSET

\* UhyveVm::new up to and including init_guest_mem: the guest base, the
\* kernel address and the arguments of the page-table initialisation.
UhyveVm_new(start_addr, memory_size) ==
  LET guest_address == IF IsSome(start_addr) THEN RAM_START
                       ELSE RelocatableBase
      offset == IF IsSome(start_addr) THEN Unwrap(start_addr)
                ELSE RelocatableBase + KERNEL_OFFSET
  IN  [NoVm EXCEPT !.stage = "constructed",
                   !.guest_address = guest_address,
                   !.memory_size = memory_size,
                   !.kernel_address = offset,
                   !.init_guest_mem =
                      Some([mem_len |-> memory_size,
                            guest_address |-> guest_address]),
                   !.BOOT_INFO_ADDR =
                      Some(UhyvePageTable_new_BOOT_INFO_ADDR(guest_address))]

\* `kernel_end_address > memory_size as u64 - guest_address`: both sides
\* are u64.  When guest_address exceeds memory_size the subtraction wraps
\* to 2^64 - (guest_address - memory_size), which no end address of the
\* model exceeds.
InsufficientMemory(kernel_end_address, memory_size, guest_address) ==
  IF memory_size >= guest_address
  THEN kernel_end_address > memory_size - guest_address
  ELSE FALSE

\* UhyveVm::load_kernel on a constructed VM.
load_kernel(vm, mem_size, fdt_len) ==
  LET kernel_end_address == vm.kernel_address + mem_size
  IN  IF InsufficientMemory(kernel_end_address, vm.memory_size,
                            vm.guest_address)
      THEN [vm EXCEPT !.stage = "InsufficientMemory"]
      ELSE IF mem_size + KERNEL_OFFSET > vm.memory_size
      THEN [vm EXCEPT !.stage = "panic"]
      ELSE IF ~(fdt_len < BOOT_INFO_OFFSET - FDT_OFFSET)
      THEN [vm EXCEPT !.stage = "panic",
              !.image = Some([from |-> vm.guest_address + KERNEL_OFFSET,
                              len |-> mem_size])]
      ELSE IF ~(vm.kernel_address > KERNEL_STACK_SIZE)
      THEN [vm EXCEPT !.stage = "panic",
              !.image = Some([from |-> vm.guest_address + KERNEL_OFFSET,
                              len |-> mem_size]),
              !.fdt = Some(vm.guest_address + FDT_OFFSET),
              !.device_tree = Some(FDT_OFFSET),
              !.boot_info = Some(vm.guest_address + BOOT_INFO_OFFSET)]
      ELSE [vm EXCEPT !.stage = "loaded",
              !.image = Some([from |-> vm.guest_address + KERNEL_OFFSET,
                              len |-> mem_size]),
              !.fdt = Some(vm.guest_address + FDT_OFFSET),
              !.device_tree = Some(FDT_OFFSET),
              !.boot_info = Some(vm.guest_address + BOOT_INFO_OFFSET),
              !.stack_address = Some(vm.kernel_address - KERNEL_STACK_SIZE)]

InitVm ==
  /\ Boot
  /\ \E start_addr \in StartAddrs, mem_size \in ImageSizes,
        memory_size \in MemorySizes, fdt_len \in FdtLens :
       inp = [start_addr |-> start_addr, mem_size |-> mem_size,
              memory_size |-> memory_size, fdt_len |-> fdt_len]
  /\ out = NoVm

VmNew ==
  /\ out.stage = "none"
  /\ out' = UhyveVm_new(inp.start_addr, inp.memory_size)
  /\ UNCHANGED <<inp, others>>

VmLoadKernel ==
  /\ out.stage = "constructed"
  /\ out' = load_kernel(out, inp.mem_size, inp.fdt_len)
  /\ UNCHANGED <<inp, others>>

NextVm == VmNew \/ VmLoadKernel

SpecVm == InitVm /\ [][NextVm]_vars

\* C26: every call of the page-table initialisation made by VM
\* construction satisfies its preconditions: the guest base and the region
\* size are multiples of 2 MiB and the region is at least MIN_PHYSMEM_SIZE
\* long, for relocatable and for fixed-start kernels.
C26_InitPreconditions ==
  IsSome(out.init_guest_mem) =>
    LET call == Unwrap(out.init_guest_mem)
    IN  /\ call.guest_address % Size2MiB = 0
        /\ call.mem_len % Size2MiB = 0
        /\ call.mem_len >= MIN_PHYSMEM_SIZE

\* C27: after a successful load_kernel the recorded kernel start address
\* is guest base + KERNEL_OFFSET, the guest-physical address of the region
\* bytes the image was copied to.
C27_KernelAddressIsImageAddress ==
  (out.stage = "loaded") =>
    /\ out.kernel_address = out.guest_address + KERNEL_OFFSET
    /\ out.kernel_address = Unwrap(out.image).from

\* C28: load_kernel returns InsufficientMemory exactly when kernel address
\* + image size exceeds guest base + memory size, and when the check
\* passes the image slice lies inside the region.
C28_InsufficientMemoryExact ==
  (out.stage \notin {"none", "constructed"}) =>
    /\ (out.stage = "InsufficientMemory")
         <=> (out.kernel_address + inp.mem_size
                > out.guest_address + out.memory_size)
    /\ (out.stage # "InsufficientMemory")
         => KERNEL_OFFSET + inp.mem_size <= out.memory_size

\* C30: the FDT location recorded in the boot info and the boot-info
\* address of the boot layout are guest base + FDT_OFFSET and guest base
\* + BOOT_INFO_OFFSET, the places where the two were written.
C30_RecordedLocations ==
  (out.stage = "loaded") =>
    /\ Unwrap(out.device_tree) = out.guest_address + FDT_OFFSET
    /\ Unwrap(out.device_tree) = Unwrap(out.fdt)
    /\ Unwrap(out.BOOT_INFO_ADDR) = out.guest_address + BOOT_INFO_OFFSET
    /\ Unwrap(out.BOOT_INFO_ADDR) = Unwrap(out.boot_info)

(***************************************************************************)
(* The VM's temporary directory from create_temp_dir to the drop of the    *)
(* TempDir when the VM is torn down.                                       *)
(***************************************************************************)
\* The names Uuid::new_v4() may give, followed by "-uhyve".
TempDirNames == {<<"a", "-", "u", "h", "y", "v", "e">>,
                 <<"b", "-", "u", "h", "y", "v", "e">>}
TempFileNames == {G_g, G_u, G_d}
StopReasons == {"Exit", "HostError", "Kick"}

NoTemp ==
  [stage |-> "none", dir |-> <<>>, keep |-> FALSE, mode |-> 0,
   dir_exists |-> FALSE, temp_files |-> {}, reason |-> "none"]

\* isolation::create_temp_dir: Builder with permissions 0o700, the UUID
\* prefix, keep(true) and the "-uhyve" suffix.
create_temp_dir(name) ==
  [NoTemp EXCEPT !.stage = "running", !.dir = name, !.keep = TRUE,
                 !.mode = 448, !.dir_exists = TRUE]

\* A create-on-miss open puts a file into the directory.
create_temporary_file(t, guest_path) ==
  [t EXCEPT !.temp_files = @ \cup {guest_path}]

\* TempDir::drop: the directory and its contents are removed unless the
\* builder was told to keep them.
TempDir_drop(t) ==
  IF t.keep THEN [t EXCEPT !.stage = "torn down"]
  ELSE [t EXCEPT !.stage = "torn down", !.dir_exists = FALSE,
                 !.temp_files = {}]

InitTemp ==
  /\ Boot
  /\ inp = None
  /\ out = NoTemp

CreateTempDir ==
  /\ out.stage = "none"
  /\ \E name \in TempDirNames : out' = create_temp_dir(name)
  /\ UNCHANGED <<inp, others>>

CreateTemporaryFile ==
  /\ out.stage = "running"
  /\ \E guest_path \in TempFileNames \ out.temp_files :
       out' = create_temporary_file(out, guest_path)
  /\ UNCHANGED <<inp, others>>

\* The VM stops: the guest exits, the host fails, or the vCPUs are kicked.
VmStop ==
  /\ out.stage = "running"
  /\ \E reason \in StopReasons :
       out' = [out EXCEPT !.stage = "stopped", !.reason = reason]
  /\ UNCHANGED <<inp, others>>

DropTempDir ==
  /\ out.stage = "stopped"
  /\ out' = TempDir_drop(out)
  /\ UNCHANGED <<inp, others>>

NextTemp == CreateTempDir \/ CreateTemporaryFile \/ VmStop \/ DropTempDir

SpecTemp == InitTemp /\ [][NextTemp]_vars

\* C24: on every exit path (guest exit, host error, kick), after teardown
\* the VM's temporary directory and the temporary files created by
\* create-on-miss opens no longer exist on the host.
C24_TempDirRemoved ==
  (out.stage = "torn down") => (~out.dir_exists /\ out.temp_files = {})

(***************************************************************************)
(* Two vCPU workers of one VM, each running its guest until an I/O exit,   *)
(* dispatching the exit with address_to_hypercall and resuming the guest   *)
(* when the handler has returned and the borrow is dropped.                *)
(***************************************************************************)
Vcpus == {1, 2}
\* The ports and data values the guest code of a vCPU writes.
VcpuPorts == {"FileOpen", "FileClose", "Uart", "unreserved"}
VcpuData == {MemBase, MemBase + 1, MemBase + RecLen, MaxAddr}

GuestRunning == [at |-> "guest", port |-> "", data |-> 0, borrow |-> None]

InitVcpus ==
  /\ Boot
  /\ inp = None
  /\ out = [v \in Vcpus |-> GuestRunning]

\* The guest of vCPU v writes data to an I/O port: the vCPU leaves the guest.
VcpuIoExit(v) ==
  /\ out[v].at = "guest"
  /\ \E port \in VcpuPorts, data \in VcpuData :
       out' = [out EXCEPT ![v] = [GuestRunning EXCEPT !.at = "exit",
                                     !.port = port, !.data = data]]
  /\ UNCHANGED <<inp, others>>

\* The worker of vCPU v calls address_to_hypercall(mem, port, data).
VcpuDispatch(v) ==
  /\ out[v].at = "exit"
  /\ LET h == address_to_hypercall(out[v].port, out[v].data)
     IN  out' = [out EXCEPT ![v] =
                   IF h.tag = "None" THEN GuestRunning
                   ELSE IF h.tag = "panic" THEN [@ EXCEPT !.at = "panicked"]
                   ELSE [@ EXCEPT !.at = "handling", !.borrow = h.borrow]]
  /\ UNCHANGED <<inp, others>>

\* The handler returns, the Hypercall value is dropped, the guest resumes.
VcpuResume(v) ==
  /\ out[v].at = "handling"
  /\ out' = [out EXCEPT ![v] = GuestRunning]
  /\ UNCHANGED <<inp, others>>

NextVcpus ==
  \E v \in Vcpus : VcpuIoExit(v) \/ VcpuDispatch(v) \/ VcpuResume(v)

SpecVcpus == InitVcpus /\ [][NextVcpus]_vars

\* The records at a and b share an address.
Overlap(a, b) == a < b + RecLen /\ b < a + RecLen

\* C22: at every moment at most one live mutable borrow exists for any
\* hypercall parameter record: no two hypercalls with overlapping records
\* are handled at the same time, and a vCPU does not run guest code while
\* one of its own hypercalls is being handled.
C22_OneBorrowPerRecord ==
  /\ \A v \in Vcpus, u \in Vcpus :
       (v # u /\ IsSome(out[v].borrow) /\ IsSome(out[u].borrow))
         => ~Overlap(Unwrap(out[v].borrow), Unwrap(out[u].borrow))
  /\ \A v \in Vcpus : (out[v].at = "guest") => out[v].borrow = None

(***************************************************************************)
(* Two vCPU workers, each handling one open hypercall on the VM's shared   *)
(* `file_mapping: Mutex<UhyveFileMap>`.  A worker locks the mutex, looks   *)
(* the guest path up (get_host_path), on a miss with O_CREAT allocates a   *)
(* temporary file, opens the host path, records the descriptor and unlocks.*)
(***************************************************************************)
LockParams == Some(<<Param(H_h, G_g)>>)
LockPaths == {G_g, G_gs, G_u}
TempRoot == <<Sep, "t">>
\* The descriptors the host hands out after the standard streams.
LockFds == 3..(MaxFd + 2)

\* Mutex::lock returns only when no other thread holds the guard.
MutexAlwaysFree(holder) == TRUE
MutexFree(holder) == holder = 0

NoCall == [at |-> "guest", path |-> <<>>, creat |-> FALSE, host_path |-> None,
           ret |-> 0, done |-> FALSE]
NoShared == [mutex |-> 0, fds |-> {}, temps |-> {}, allocations |-> 0]

\* The map after a lookup, as <<host path option, files>>.
LockLookup(m, call) == get_host_path(m, call.path)
\* The temporary host path a create-on-miss open allocates.
create_temporary_file_path(guest_path) == Push(TempRoot, guest_path)
\* The lowest descriptor the host has not handed out.
NextFd(fds) == CHOOSE n \in LockFds \ fds : \A k \in LockFds \ fds : n <= k

InitLock ==
  /\ files = UhyveFileMapNew(LockParams)
  /\ params = LockParams
  /\ hasMap = TRUE
  /\ configured = DOMAIN files
  /\ HostInit
  /\ guestFds = {}
  /\ pc = "run"
  /\ wr = NoWr
  /\ last = NoLast
  /\ host = NoHost
  /\ output = NoOutput
  /\ guest = NoGuest
  /\ inp = [v \in Vcpus |-> NoCall]
  /\ out = NoShared

lockRest == <<hasMap, configured, hostFiles, hostFds, pc, wr, last, host,
              params, fdTab, content, output, guest>>

\* The guest of vCPU v issues open(path, flags) and the vCPU leaves the
\* guest.
LockExit(v) ==
  /\ inp[v].at = "guest" /\ ~inp[v].done
  /\ \E path \in LockPaths, creat \in BOOLEAN :
       inp' = [inp EXCEPT ![v] = [NoCall EXCEPT !.at = "exit", !.path = path,
                                                 !.creat = creat]]
  /\ UNCHANGED <<files, guestFds, out, lockRest>>

\* file_mapping.lock()
LockAcquire(v) ==
  /\ inp[v].at = "exit"
  /\ MutexFree(out.mutex)
  /\ out' = [out EXCEPT !.mutex = v]
  /\ inp' = [inp EXCEPT ![v].at = "locked"]
  /\ UNCHANGED <<files, guestFds, lockRest>>

\* get_host_path under the guard.
LockGetHostPath(v) ==
  /\ inp[v].at = "locked"
  /\ LET r == LockLookup(files, inp[v])
     IN  /\ files' = r[2]
         /\ inp' = [inp EXCEPT ![v].host_path = r[1],
                               ![v].at = IF IsSome(r[1]) THEN "opening"
                                         ELSE IF inp[v].creat THEN "creating"
                                         ELSE "unlocking",
                               ![v].ret = IF IsSome(r[1]) \/ inp[v].creat
                                          THEN 0 ELSE -ENOENT]
  /\ UNCHANGED <<guestFds, out, lockRest>>

\* Create-on-miss: a temporary file is allocated and entered into the map.
LockCreateTemporaryFile(v) ==
  /\ inp[v].at = "creating"
  /\ LET t == create_temporary_file_path(inp[v].path)
     IN  /\ files' = Insert(files, inp[v].path, t)
         /\ inp' = [inp EXCEPT ![v].host_path = Some(t), ![v].at = "opening"]
         /\ out' = [out EXCEPT !.temps = @ \cup {t},
                               !.allocations = @ + 1]
  /\ UNCHANGED <<guestFds, lockRest>>

\* The host open and the insertion of the descriptor into the fd set.
LockHostOpen(v) ==
  /\ inp[v].at = "opening"
  /\ LET fd == NextFd(guestFds)
     IN  /\ guestFds' = guestFds \cup {fd}
         /\ inp' = [inp EXCEPT ![v].ret = fd, ![v].at = "unlocking"]
  /\ UNCHANGED <<files, out, lockRest>>

\* The guard is dropped and the guest resumes.
LockRelease(v) ==
  /\ inp[v].at = "unlocking"
  /\ out' = [out EXCEPT !.mutex = IF @ = v THEN 0 ELSE @]
  /\ inp' = [inp EXCEPT ![v].at = "guest", ![v].done = TRUE]
  /\ UNCHANGED <<files, guestFds, lockRest>>

NextLock ==
  \E v \in Vcpus :
    \/ LockExit(v)
    \/ LockAcquire(v)
    \/ LockGetHostPath(v)
    \/ LockCreateTemporaryFile(v)
    \/ LockHostOpen(v)
    \/ LockRelease(v)

SpecLock == InitLock /\ [][NextLock]_vars

\* One open handled alone on state st = [files, fds, allocations]: the
\* state afterwards and the value returned to the guest.
SerialOpen(st, call) ==
  LET r == get_host_path(st.files, call.path)
  IN  IF IsSome(r[1])
      THEN [files |-> r[2], fds |-> st.fds \cup {NextFd(st.fds)},
            allocations |-> st.allocations, ret |-> NextFd(st.fds)]
      ELSE IF call.creat
      THEN [files |-> Insert(r[2], call.path,
                             create_temporary_file_path(call.path)),
            fds |-> st.fds \cup {NextFd(st.fds)},
            allocations |-> st.allocations + 1, ret |-> NextFd(st.fds)]
      ELSE [files |-> r[2], fds |-> st.fds,
            allocations |-> st.allocations, ret |-> -ENOENT]

\* The opens of vCPU a and then vCPU b, one after the other, from the
\* state of InitLock: <<files, fds, allocations, ret of a, ret of b>>.
SerialOrder(a, b) ==
  LET s0 == [files |-> UhyveFileMapNew(LockParams), fds |-> {},
             allocations |-> 0]
      s1 == SerialOpen(s0, inp[a])
      s2 == SerialOpen(s1, inp[b])
  IN  [files |-> s2.files, fds |-> s2.fds, allocations |-> s2.allocations,
       rets |-> (a :> s1.ret) @@ (b :> s2.ret)]

InsideMapOperation(v) ==
  inp[v].at \in {"locked", "creating", "opening", "unlocking"}

====
